---- MODULE Spec2Model ----
(***************************************************************************)
(* Model of manga_scraper3.py: the page loop of main(), the list and       *)
(* detail extractors, the navigation-link filter, the JSON snapshot        *)
(* writer, the end-of-run deduplication and the crawler's lifetime.        *)
(*                                                                         *)
(* Python values are modelled as follows.                                  *)
(*   str            a sequence of tokens (so that prefixing, startswith    *)
(*                  and substring tests are computed, not assumed)         *)
(*   Optional[x]    [none |-> BOOLEAN, s |-> x]                            *)
(*   dict           a record; a key the dict lacks is absent from DOMAIN   *)
(*   list           a sequence                                             *)
(***************************************************************************)
EXTENDS Integers, Sequences, FiniteSets, TLC

\* ------------------------------------------------------------------ bounds
\* number of catalog pages walked in the model (the source walks 595..710)
NumPages == 2
\* number of item nodes the catalog holds in the model, all pages together
MaxItems == 3

\* --------------------------------------------------------------- constants
\* first page of range(595, MAX_PAGES + 1)
StartPage == 595
\* MAX_PAGES, the inclusive end of the range, scaled to NumPages pages
MAX_PAGES == StartPage + NumPages - 1
Pages == StartPage..MAX_PAGES

\* ------------------------------------------------------------ value model
None == [none |-> TRUE, s |-> <<>>]
Str(q) == [none |-> FALSE, s |-> q]
\* Python truthiness of an Optional[str]: None and "" are falsy
Truthy(o) == ~o.none /\ o.s # <<>>
\* a or b
OrElse(a, b) == IF Truthy(a) THEN a ELSE b

BASE_URL == <<"https://mangareader.to">>
\* the tokens of the model's alphabet whose text begins with "http"
HttpTokens == {"https://mangareader.to"}
\* s.startswith('http')
StartsWithHttp(s) == Len(s) > 0 /\ s[1] \in HttpTokens
\* "az-list" in s
ContainsAzList(s) == \E k \in 1..Len(s) : s[k] = "/az-list"

\* whitespace tokens, and text.strip()
Blank == {" ", "\n"}
RECURSIVE LStrip(_)
LStrip(t) == IF t # <<>> /\ Head(t) \in Blank THEN LStrip(Tail(t)) ELSE t
RECURSIVE RStrip(_)
RStrip(t) ==
  IF t # <<>> /\ t[Len(t)] \in Blank THEN RStrip(SubSeq(t, 1, Len(t) - 1)) ELSE t
Strip(t) == RStrip(LStrip(t))

\* all sequences over S of length at most n
RECURSIVE SeqsUpTo(_, _)
SeqsUpTo(S, n) ==
  IF n = 0 THEN {<<>>}
  ELSE LET shorter == SeqsUpTo(S, n - 1)
       IN  shorter \cup {Append(q, e) : q \in {r \in shorter : Len(r) = n - 1}, e \in S}

\* ------------------------------------------------- catalog page documents
\* One item node of a catalog page, as the selectors of extract_manga_list
\* see it: raises - handling the node throws; link - an anchor was found;
\* href - the anchor's href attribute; name - text of the title element
\* (none: the title falls back to the anchor itself); text - the anchor's
\* own text; img, src, data_src - the anchor's img child and its attributes.
NodeError ==
  [raises |-> TRUE, link |-> FALSE, href |-> None, name |-> None,
   text |-> <<>>, img |-> FALSE, src |-> None, data_src |-> None]
NodeNoAnchor ==
  [raises |-> FALSE, link |-> FALSE, href |-> None, name |-> None,
   text |-> <<>>, img |-> FALSE, src |-> None, data_src |-> None]
NodeNoHref ==
  [raises |-> FALSE, link |-> TRUE, href |-> None, name |-> Str(<<"Bleach">>),
   text |-> <<>>, img |-> FALSE, src |-> None, data_src |-> None]
NodeRelative ==
  [raises |-> FALSE, link |-> TRUE, href |-> Str(<<"/one-piece">>),
   name |-> Str(<<" ", "One Piece", "\n">>), text |-> <<>>,
   img |-> TRUE, src |-> Str(<<"/op.jpg">>), data_src |-> None]
NodeAbsolute ==
  [raises |-> FALSE, link |-> TRUE,
   href |-> Str(<<"https://mangareader.to", "/one-piece">>),
   name |-> Str(<<"One Piece">>), text |-> <<"poster">>,
   img |-> TRUE, src |-> Str(<<"/op.jpg">>), data_src |-> Str(<<"/lazy.jpg">>)]
NodeOther ==
  [raises |-> FALSE, link |-> TRUE, href |-> Str(<<"/naruto">>),
   name |-> None, text |-> <<"\n", "Naruto", " ">>,
   img |-> TRUE, src |-> None, data_src |-> Str(<<"/naruto-lazy.jpg">>)]
NodeNavigation ==
  [raises |-> FALSE, link |-> TRUE, href |-> Str(<<"/az-list", "?page=2">>),
   name |-> Str(<<"Next">>), text |-> <<>>,
   img |-> FALSE, src |-> None, data_src |-> None]
Nodes ==
  {NodeError, NodeNoAnchor, NodeNoHref, NodeRelative, NodeAbsolute,
   NodeOther, NodeNavigation}

\* the outcomes of fetching one catalog page: the fetch (or the parse of the
\* whole document) fails, or it yields a sequence of item nodes (FetchList
\* keeps the nodes of all pages together within MaxItems)
ListOutcomes ==
  {[ok |-> FALSE, nodes |-> <<>>]}
    \cup {[ok |-> TRUE, nodes |-> ns] : ns \in SeqsUpTo(Nodes, MaxItems)}

\* the stub built from one node that has an anchor (lines 67-81)
StubOf(node) ==
  LET manga_url == IF Truthy(node.href) /\ ~StartsWithHttp(node.href.s)
                   THEN Str(BASE_URL \o node.href.s)
                   ELSE node.href
      cover_url == IF node.img THEN OrElse(node.src, node.data_src) ELSE None
      title     == IF node.name.none THEN Strip(node.text) ELSE Strip(node.name.s)
  IN  [title |-> title, url |-> manga_url, cover_url |-> cover_url]

\* the for loop over manga_elements (lines 61-84): a node whose handling
\* throws, or that has no anchor, contributes nothing
RECURSIVE ParseItems(_)
ParseItems(nodes) ==
  IF nodes = <<>> THEN <<>>
  ELSE LET node == Head(nodes)
           rest == ParseItems(Tail(nodes))
       IN  IF node.raises \/ ~node.link THEN rest ELSE <<StubOf(node)>> \o rest

\* extract_manga_list: [] when the fetch fails, else the parsed stubs
extract_manga_list(outcome) ==
  IF outcome.ok THEN ParseItems(outcome.nodes) ELSE <<>>

\* ------------------------------------------------------- navigation filter
\* filter_navigation_links evaluates "az-list" in item["url"] for every stub
\* (each is a dict with a "url" key); on a url of None that test raises
\* TypeError, which nothing in the function catches
filter_raises(extracted_data) ==
  \E k \in 1..Len(extracted_data) : extracted_data[k].url.none
IsNavigation(item) == ContainsAzList(item.url.s)
filter_navigation_links(extracted_data) ==
  SelectSeq(extracted_data, LAMBDA item : ~IsNavigation(item))

\* -------------------------------------------------- detail page documents
\* the rating value None, and a rating parsed to a float (kept in tenths)
NoRating == [none |-> TRUE, tenths |-> 0]
Rating(t) == [none |-> FALSE, tenths |-> t]
\* the tokens that the pattern (\d+\.?\d*) matches, with their float value
NumberTokens == {"7.2", "9", "8.5"}
FloatOf(tok) == CASE tok = "7.2" -> 72 [] tok = "9" -> 90 [] tok = "8.5" -> 85
\* re.search(r"(\d+\.?\d*)", text): the first number in the text, if any
RECURSIVE SearchNumber(_)
SearchNumber(text) ==
  IF text = <<>> THEN NoRating
  ELSE IF Head(text) \in NumberTokens THEN Rating(FloatOf(Head(text)))
  ELSE SearchNumber(Tail(text))

\* [e.text.strip() for e in elements]
StripAll(elements) == [k \in 1..Len(elements) |-> Strip(elements[k])]
\* the first non-empty sequence of qs, or <<>>
RECURSIVE FirstNonEmpty(_)
FirstNonEmpty(qs) ==
  IF qs = <<>> THEN <<>>
  ELSE IF Head(qs) # <<>> THEN Head(qs) ELSE FirstNonEmpty(Tail(qs))

\* A detail document as the selectors of extract_manga_details see it: each
\* field is what one selector matches (none / empty: no match).
EmptyDoc ==
  [synopsis |-> None, author_element |-> FALSE, author_links |-> <<>>,
   genres |-> <<>>, genres_button |-> <<>>, genres_a |-> <<>>,
   genres_broad |-> <<<<>>, <<>>, <<>>>>, thumb_src |-> None,
   rating |-> None, status_value |-> None, manga_status |-> None]
FullDoc ==
  [synopsis |-> Str(<<" ", "Pirates.", " ">>), author_element |-> TRUE,
   author_links |-> <<<<"Oda", " ">>>>,
   genres |-> <<>>, genres_button |-> <<>>,
   genres_a |-> <<<<"Action">>, <<" ", "Adventure">>>>,
   genres_broad |-> <<<<>>, <<>>, <<<<"Ignored">>>>>>,
   thumb_src |-> Str(<<"/cover.jpg">>),
   rating |-> Str(<<"Rating: ", "7.2", "/10">>),
   status_value |-> None, manga_status |-> Str(<<" ", "Completed">>)]
\* the site serves one document per detail url for the whole run
DocAt(url) ==
  IF \E k \in 1..Len(url.s) : url.s[k] = "/one-piece" THEN FullDoc ELSE EmptyDoc

\* the outcomes of fetching and parsing the detail page of a stub: anything
\* in the try block throws (fetch error, no html), or the document is parsed
DetailOutcomes(manga) ==
  {[ok |-> FALSE, doc |-> EmptyDoc], [ok |-> TRUE, doc |-> DocAt(manga.url)]}

\* the try block of extract_manga_details (lines 107-167)
DetailSuccess(basic_info, doc) ==
  LET synopsis == IF doc.synopsis.none THEN <<"Not available">>
                  ELSE Strip(doc.synopsis.s)
      author   == IF doc.author_element /\ doc.author_links # <<>>
                  THEN StripAll(doc.author_links)
                  ELSE <<<<"Unknown">>>>
      alt      == IF doc.genres_button # <<>> THEN doc.genres_button
                  ELSE doc.genres_a
      genres1  == StripAll(doc.genres)
      genres2  == IF genres1 # <<>> THEN genres1 ELSE StripAll(alt)
      genres3  == IF genres2 # <<>> THEN genres2
                  ELSE StripAll(FirstNonEmpty(doc.genres_broad))
      rating   == IF doc.rating.none THEN NoRating
                  ELSE SearchNumber(Strip(doc.rating.s))
      status   == IF ~doc.status_value.none THEN Strip(doc.status_value.s)
                  ELSE IF ~doc.manga_status.none THEN Strip(doc.manga_status.s)
                  ELSE <<"Unknown">>
      fields   == [synopsis |-> synopsis, author |-> author, genres |-> genres3,
                   rating |-> rating, status |-> status]
      cover    == IF doc.thumb_src.none THEN fields
                  ELSE fields @@ [cover_image |-> doc.thumb_src.s]
  IN  cover @@ basic_info

\* variant: the except block returns the stub as it is
DetailFailure_stubOnly(basic_info) == basic_info

\* the except block of extract_manga_details (lines 168-172):
\* basic_info["genres"] = []; return basic_info
DetailFailure(basic_info) == [genres |-> <<>>] @@ basic_info

\* extract_manga_details: the record returned for a stub
extract_manga_details(basic_info, outcome) ==
  IF outcome.ok THEN DetailSuccess(basic_info, outcome.doc)
  ELSE DetailFailure(basic_info)

\* ------------------------------------------------------------ deduplication
\* lines 257-263: keep a record iff its url has not been seen before
RECURSIVE DedupeFrom(_, _)
DedupeFrom(list, unique_urls) ==
  IF list = <<>> THEN <<>>
  ELSE LET manga == Head(list)
       IN  IF manga.url \notin unique_urls
           THEN <<manga>> \o DedupeFrom(Tail(list), unique_urls \cup {manga.url})
           ELSE DedupeFrom(Tail(list), unique_urls)
\* variant: no record is dropped
Dedupe_keepAll(list) == list
Dedupe(list) == DedupeFrom(list, {})

\* ------------------------------------------------------------ control flow
\* variant: no sleep between the items of a page
NeedItemDelay_never(index, count) == FALSE
\* if i < len(page_manga_list) - 1: await asyncio.sleep(delay)
NeedItemDelay(index, count) == index < count - 1
\* variant: a sleep after every page, the last one included
NeedPageDelay_always(p) == TRUE
\* if page < MAX_PAGES: await asyncio.sleep(delay)
NeedPageDelay(p) == p < MAX_PAGES
\* variant: the records join the run-wide list only when the write succeeded
Extend_ifSaved(list, data, saved) == IF saved THEN list \o data ELSE list
\* manga_list.extend(page_manga_data), which follows save_to_json whatever
\* the write did (saved: whether the write succeeded)
Extend(list, data, saved) == list \o data
\* variant: the aggregate is written whatever the list holds
ShouldSave_always(list) == TRUE
\* if manga_list: save_to_json(manga_list, OUTPUT_FILE)
ShouldSave(list) == list # <<>>
\* variant: the exception leaves main() without running the finally clause
AfterRaise_skipFinally == "done"
\* where control goes when an exception leaves the try block of main():
\* there is no except clause, so the finally clause runs
AfterRaise == "finally"

\* a file on disk: attempts counts the calls of save_to_json for it, data is
\* <<>> while it holds nothing and <<content>> once a write succeeded
NoFile == [attempts |-> 0, data |-> <<>>]
Written(file, content, ok) ==
  [attempts |-> file.attempts + 1,
   data |-> IF ok THEN <<content>> ELSE file.data]

VARIABLES
  pc,                \* position of main()
  crawler,           \* "unbuilt", "open" or "closed"
  raised,            \* the exception propagating out of main(), or "none"
  page,              \* loop variable of the page loop
  i,                 \* loop variable of the item loop (0-based)
  page_manga_list,   \* stubs of the current page
  page_manga_data,   \* records of the current page
  manga_list,        \* run-wide list
  unique_manga_list, \* result of the deduplication
  files,             \* manga_data_page{N}.json, by page number
  output,            \* OUTPUT_FILE
  events,            \* history: requests, sleeps, writes, close, in order
  produced,          \* history: the records returned per page, with the
                     \* outcome of their detail fetch
  dedupe_input,      \* history: manga_list as the deduplication read it
  remaining          \* environment: item nodes the catalog has not served yet

vars ==
  <<pc, crawler, raised, page, i, page_manga_list, page_manga_data,
    manga_list, unique_manga_list, files, output, events, produced,
    dedupe_input, remaining>>

Event(kind) == [kind |-> kind, page |-> page, index |-> i]
Log(kind) == events' = Append(events, Event(kind))

Init ==
  /\ pc = "construct"
  /\ crawler = "unbuilt"
  /\ raised = "none"
  /\ page = StartPage
  /\ i = 0
  /\ page_manga_list = <<>>
  /\ page_manga_data = <<>>
  /\ manga_list = <<>>
  /\ unique_manga_list = <<>>
  /\ files = [p \in Pages |-> NoFile]
  /\ output = NoFile
  /\ events = <<>>
  /\ produced = [p \in Pages |-> <<>>]
  /\ dedupe_input = <<>>
  /\ remaining = MaxItems

\* crawler = AsyncWebCrawler(...) succeeds; the page loop starts
Construct ==
  /\ pc = "construct"
  /\ crawler' = "open"
  /\ pc' = "fetch_list"
  /\ Log("construct")
  /\ UNCHANGED <<raised, page, i, page_manga_list, page_manga_data, manga_list,
                 unique_manga_list, files, output, produced, dedupe_input,
                 remaining>>

\* crawler = AsyncWebCrawler(...) throws: main() is left before the try
ConstructFails ==
  /\ pc = "construct"
  /\ raised' = "setup"
  /\ pc' = "done"
  /\ UNCHANGED <<crawler, page, i, page_manga_list, page_manga_data, manga_list,
                 unique_manga_list, files, output, events, produced,
                 dedupe_input, remaining>>

\* page_manga_list = await extract_manga_list(page_url, crawler)
FetchList ==
  /\ pc = "fetch_list"
  /\ \E outcome \in ListOutcomes :
       /\ Len(outcome.nodes) <= remaining
       /\ remaining' = remaining - Len(outcome.nodes)
       /\ page_manga_list' = extract_manga_list(outcome)
  /\ pc' = "filter"
  /\ Log("list_fetch")
  /\ UNCHANGED <<crawler, raised, page, i, page_manga_data, manga_list,
                 unique_manga_list, files, output, produced, dedupe_input>>

\* the item loop starts at index 0, or is skipped for an empty list
EnterItems(list) ==
  /\ page_manga_data' = <<>>
  /\ i' = 0
  /\ pc' = IF list # <<>> THEN "details" ELSE "checkpoint"

\* page_manga_list = filter_navigation_links(page_manga_list)
FilterLinks ==
  /\ pc = "filter"
  /\ ~filter_raises(page_manga_list)
  /\ page_manga_list' = filter_navigation_links(page_manga_list)
  /\ EnterItems(page_manga_list')
  /\ UNCHANGED <<crawler, raised, page, manga_list, unique_manga_list, files,
                 output, events, produced, dedupe_input, remaining>>

\* filter_navigation_links throws TypeError; main() has no handler for it
FilterRaises ==
  /\ pc = "filter"
  /\ filter_raises(page_manga_list)
  /\ raised' = "TypeError"
  /\ pc' = AfterRaise
  /\ UNCHANGED <<crawler, page, i, page_manga_list, page_manga_data, manga_list,
                 unique_manga_list, files, output, events, produced,
                 dedupe_input, remaining>>

\* the item loop moves to the next stub, or ends
NextItem ==
  IF i + 1 < Len(page_manga_list)
  THEN i' = i + 1 /\ pc' = "details"
  ELSE i' = i /\ pc' = "checkpoint"

\* manga_data = await extract_manga_details(manga["url"], manga, crawler);
\* page_manga_data.append(manga_data).  On failure the function returns the
\* stub object itself after adding "genres" to it, so the entry of
\* page_manga_list changes too.  The except clause of lines 238-242 has no
\* action: extract_manga_details catches every Exception of its fetch and
\* parse itself, and every stub has a "url" key.
ExtractDetails ==
  /\ pc = "details"
  /\ \E outcome \in DetailOutcomes(page_manga_list[i + 1]) :
       LET manga      == page_manga_list[i + 1]
           manga_data == extract_manga_details(manga, outcome)
       IN  /\ page_manga_data' = Append(page_manga_data, manga_data)
           /\ page_manga_list' =
                IF outcome.ok THEN page_manga_list
                ELSE [page_manga_list EXCEPT ![i + 1] = manga_data]
           /\ produced' =
                [produced EXCEPT ![page] =
                   Append(@, [stub |-> manga, ok |-> outcome.ok,
                              record |-> manga_data])]
  /\ Log("detail_fetch")
  /\ IF NeedItemDelay(i, Len(page_manga_list))
     THEN i' = i /\ pc' = "item_delay"
     ELSE NextItem
  /\ UNCHANGED <<crawler, raised, page, manga_list, unique_manga_list, files,
                 output, dedupe_input, remaining>>

\* await asyncio.sleep(random.uniform(2.0, 4.0))
ItemDelay ==
  /\ pc = "item_delay"
  /\ Log("item_delay")
  /\ NextItem
  /\ UNCHANGED <<crawler, raised, page, page_manga_list, page_manga_data,
                 manga_list, unique_manga_list, files, output, produced,
                 dedupe_input, remaining>>

\* the page loop moves to the next page, or ends
NextPage ==
  IF page < MAX_PAGES
  THEN page' = page + 1 /\ pc' = "fetch_list"
  ELSE page' = page /\ pc' = "dedupe"

\* save_to_json(page_manga_data, page_output_file); the write succeeds or
\* fails (the failure is caught and printed inside save_to_json);
\* manga_list.extend(page_manga_data)
SavePage ==
  /\ pc = "checkpoint"
  /\ \E ok \in BOOLEAN :
       /\ files' = [files EXCEPT ![page] = Written(@, page_manga_data, ok)]
       /\ manga_list' = Extend(manga_list, page_manga_data, ok)
  /\ Log("checkpoint")
  /\ IF NeedPageDelay(page)
     THEN page' = page /\ pc' = "page_delay"
     ELSE NextPage
  /\ UNCHANGED <<crawler, raised, i, page_manga_list, page_manga_data,
                 unique_manga_list, output, produced, dedupe_input, remaining>>

\* await asyncio.sleep(random.uniform(3.0, 6.0))
PageDelay ==
  /\ pc = "page_delay"
  /\ Log("page_delay")
  /\ NextPage
  /\ UNCHANGED <<crawler, raised, i, page_manga_list, page_manga_data,
                 manga_list, unique_manga_list, files, output, produced,
                 dedupe_input, remaining>>

\* lines 257-265: the deduplication; manga_list = unique_manga_list
Deduplicate ==
  /\ pc = "dedupe"
  /\ dedupe_input' = manga_list
  /\ unique_manga_list' = Dedupe(manga_list)
  /\ manga_list' = unique_manga_list'
  /\ pc' = "save_all"
  /\ Log("dedupe")
  /\ UNCHANGED <<crawler, raised, page, i, page_manga_list, page_manga_data,
                 files, output, produced, remaining>>

\* save_to_json(manga_list, OUTPUT_FILE), when manga_list is not empty
SaveAggregate ==
  /\ pc = "save_all"
  /\ ShouldSave(manga_list)
  /\ \E ok \in BOOLEAN : output' = Written(output, manga_list, ok)
  /\ pc' = "finally"
  /\ Log("save_all")
  /\ UNCHANGED <<crawler, raised, page, i, page_manga_list, page_manga_data,
                 manga_list, unique_manga_list, files, produced, dedupe_input,
                 remaining>>

\* print("No manga data collected. ..."), when manga_list is empty
SkipAggregate ==
  /\ pc = "save_all"
  /\ ~ShouldSave(manga_list)
  /\ pc' = "finally"
  /\ UNCHANGED <<crawler, raised, page, i, page_manga_list, page_manga_data,
                 manga_list, unique_manga_list, files, output, events,
                 produced, dedupe_input, remaining>>

\* finally: await crawler.close(); a pending exception then leaves main()
CloseCrawler ==
  /\ pc = "finally"
  /\ crawler' = "closed"
  /\ pc' = "done"
  /\ Log("close")
  /\ UNCHANGED <<raised, page, i, page_manga_list, page_manga_data, manga_list,
                 unique_manga_list, files, output, produced, dedupe_input,
                 remaining>>

Next ==
  \/ Construct
  \/ ConstructFails
  \/ FetchList
  \/ FilterLinks
  \/ FilterRaises
  \/ ExtractDetails
  \/ ItemDelay
  \/ SavePage
  \/ PageDelay
  \/ Deduplicate
  \/ SaveAggregate
  \/ SkipAggregate
  \/ CloseCrawler

Spec == Init /\ [][Next]_vars

\* =================================================================== history
Acquired == crawler # "unbuilt"
Finished == pc = "done" /\ Acquired
Happened(kind) == \E k \in 1..Len(events) : events[k].kind = kind
At(kind, p) == {k \in 1..Len(events) : events[k].kind = kind /\ events[k].page = p}
Fetches == {"list_fetch", "detail_fetch"}
Delays == {"item_delay", "page_delay"}
\* the requests and sleeps of the run, in order
Timeline == SelectSeq(events, LAMBDA e : e.kind \in Fetches \cup Delays)

\* the records returned for the stubs of page p, in stub order
Records(p) == [k \in 1..Len(produced[p]) |-> produced[p][k].record]
\* the records of the pages up to p whose checkpoint step has run, in page order
RECURSIVE Collected(_)
Collected(p) ==
  IF p < StartPage THEN <<>>
  ELSE Collected(p - 1) \o (IF At("checkpoint", p) # {} THEN Records(p) ELSE <<>>)

\* ======================================================================= C1
NoTwoSameUrl(list) ==
  \A a, b \in 1..Len(list) : a # b => list[a].url # list[b].url
RECURSIVE IsSubsequence(_, _)
IsSubsequence(a, b) ==
  IF a = <<>> THEN TRUE
  ELSE IF b = <<>> THEN FALSE
  ELSE IF Head(a) = Head(b) THEN IsSubsequence(Tail(a), Tail(b))
  ELSE IsSubsequence(a, Tail(b))
FirstIndex(list, url) ==
  CHOOSE k \in 1..Len(list) :
    list[k].url = url /\ \A j \in 1..(k - 1) : list[j].url # url

\* C1: the deduplication at the end of main() yields a sequence with no two
\* records of the same url, that is a subsequence of its input, and in which
\* every url of the input is represented by its first occurrence in the input.
C1_DedupeFirstSeen ==
  Happened("dedupe") =>
    /\ NoTwoSameUrl(unique_manga_list)
    /\ IsSubsequence(unique_manga_list, dedupe_input)
    /\ \A k \in 1..Len(unique_manga_list) :
         unique_manga_list[k] =
           dedupe_input[FirstIndex(dedupe_input, unique_manga_list[k].url)]
    /\ \A j \in 1..Len(dedupe_input) :
         \E k \in 1..Len(unique_manga_list) :
           unique_manga_list[k].url = dedupe_input[j].url
    /\ manga_list = unique_manga_list

\* a run whose input holds two different records of one url, later than a
\* record of another url, and loses one of them
C1_Witness ==
  /\ Happened("dedupe")
  /\ Len(unique_manga_list) = 2
  /\ \E a, b \in 1..Len(dedupe_input) :
       /\ 1 < a /\ a < b
       /\ dedupe_input[a].url = dedupe_input[b].url
       /\ dedupe_input[a] # dedupe_input[b]
       /\ dedupe_input[1].url # dedupe_input[a].url

\* ======================================================================= C2
\* C2: once the crawler is constructed no per-item or per-page error stops
\* the run: main() processes every page up to the end page and reaches the
\* deduplication, and only the failure to construct the crawler propagates.
C2_NoErrorStopsTheRun ==
  /\ raised \in {"none", "setup"}
  /\ Finished =>
       /\ \A p \in Pages : At("list_fetch", p) # {} /\ At("checkpoint", p) # {}
       /\ Happened("dedupe")

\* ======================================================================= C3
StubFields == {"title", "url", "cover_url"}
DetailFields == {"synopsis", "author", "genres", "rating", "status"}
KeepsStub(entry) ==
  \A f \in StubFields :
    f \in DOMAIN entry.record /\ entry.record[f] = entry.stub[f]
AllDefaults(record) ==
  /\ DetailFields \subseteq DOMAIN record
  /\ record.synopsis = <<"Not available">>
  /\ record.author = <<<<"Unknown">>>>
  /\ record.genres = <<>>
  /\ record.rating = NoRating
  /\ record.status = <<"Unknown">>
HasAuthorsAndStatus(record) ==
  /\ "author" \in DOMAIN record /\ record.author # <<>>
  /\ "status" \in DOMAIN record
\* every entry of the history of returned records
Entries == UNION {{produced[p][k] : k \in 1..Len(produced[p])} : p \in Pages}
\* every record held by a checkpoint file or by the aggregate file
Contents(file) == IF file.data = <<>> THEN <<>> ELSE file.data[1]
RecordsOf(list) == {list[k] : k \in 1..Len(list)}
Persisted ==
  RecordsOf(Contents(output))
    \cup UNION {RecordsOf(Contents(files[p])) : p \in Pages}

\* C3 as stated: extract_manga_details returns, when the detail page cannot
\* be fetched or parsed, the stub's fields plus the default of every detail
\* field, so that every persisted record has a non-empty authors sequence and
\* a status.
C3_FailureGetsEveryDefault ==
  /\ \A e \in Entries : KeepsStub(e) /\ (~e.ok => AllDefaults(e.record))
  /\ \A r \in Persisted : HasAuthorsAndStatus(r)

\* C3 amended: when the detail page cannot be fetched or parsed the record is
\* the stub's fields plus genres = [] and no other detail field; a parsed
\* page gives every detail field, authors non-empty, and the documented
\* defaults when the document matches no selector.  Every persisted record
\* has genres; the others of its detail fields are all present or all absent.
C3_FailureGetsGenresOnly ==
  /\ \A e \in Entries :
       /\ KeepsStub(e)
       /\ IF e.ok
          THEN /\ DetailFields \subseteq DOMAIN e.record
               /\ e.record.author # <<>>
               /\ DocAt(e.stub.url) = EmptyDoc => AllDefaults(e.record)
          ELSE /\ DOMAIN e.record = StubFields \cup {"genres"}
               /\ e.record.genres = <<>>
  /\ \A r \in Persisted :
       /\ "genres" \in DOMAIN r
       /\ \/ DetailFields \subseteq DOMAIN r /\ r.author # <<>>
          \/ DOMAIN r = StubFields \cup {"genres"}

\* a checkpoint file holding a record of a failed detail fetch, without
\* authors and status, next to a record made of defaults
C3_Witness ==
  \E p \in Pages :
    /\ \E r \in RecordsOf(Contents(files[p])) : "author" \notin DOMAIN r
    /\ \E r \in RecordsOf(Contents(files[p])) : AllDefaults(r)

\* ======================================================================= C4
\* C4: for every page N of the range exactly one checkpoint write is
\* attempted, after the last item of page N and before the list fetch of page
\* N+1, with the records of page N's stubs in stub order (none for a page
\* whose list fetch failed).
C4_OneCheckpointPerPage ==
  Finished =>
    \A p \in Pages :
      /\ files[p].attempts = 1
      /\ Cardinality(At("checkpoint", p)) = 1
      /\ \A c \in At("checkpoint", p) :
           /\ \A k \in At("detail_fetch", p) \cup At("list_fetch", p) : k < c
           /\ \A q \in Pages : q > p => \A k \in At("list_fetch", q) : c < k
      /\ files[p].data # <<>> => Contents(files[p]) = Records(p)

\* ======================================================================= C5
UrlsOf(list) == {list[k].url : k \in 1..Len(list)}
FailedWrite(p) == files[p].attempts > 0 /\ files[p].data = <<>>

\* C5: a failed checkpoint write loses no collected data: the records of the
\* page are appended to the run-wide list all the same, the records of the
\* earlier pages stay as they were, and the deduplication and the aggregate
\* write read them.
C5_FailedWriteKeepsRecords ==
  /\ (IF Happened("dedupe") THEN dedupe_input ELSE manga_list)
       = Collected(MAX_PAGES)
  /\ \A p \in Pages :
       FailedWrite(p) =>
         /\ Happened("dedupe") =>
              /\ \A r \in RecordsOf(Records(p)) : r \in RecordsOf(dedupe_input)
              /\ UrlsOf(Records(p)) \subseteq UrlsOf(unique_manga_list)
         /\ output.data # <<>> =>
              UrlsOf(Records(p)) \subseteq UrlsOf(Contents(output))

\* the first page's checkpoint write failed, a later one succeeded, and the
\* aggregate file holds a record that only the first page produced
C5_Witness ==
  /\ Finished
  /\ FailedWrite(StartPage)
  /\ files[MAX_PAGES].data # <<>>
  /\ output.data # <<>>
  /\ \E r \in RecordsOf(Contents(output)) :
       /\ r \in RecordsOf(Records(StartPage))
       /\ r.url \notin UrlsOf(Records(MAX_PAGES))

\* ======================================================================= C6
\* C6: no delay is issued before the detail fetch of the first item of the
\* first page, and none after the last item of the final page has been
\* processed: no sleep lies between the final page's checkpoint write and the
\* aggregate write.
C6_NoDelayAtTheEnds ==
  /\ \A k \in At("detail_fetch", StartPage) :
       events[k].index = 0 => \A j \in 1..(k - 1) : events[j].kind \notin Delays
  /\ \A a, b \in 1..Len(events) :
       /\ a < b
       /\ events[a].page = MAX_PAGES
       /\ \/ events[a].kind = "checkpoint"
          \/ /\ events[a].kind = "detail_fetch"
             /\ events[a].index = Len(page_manga_list) - 1
       => events[b].kind \notin Delays

\* a complete run with items on the first and on the final page, delays of
\* both kinds, and the aggregate written
C6_Witness ==
  /\ Finished
  /\ Happened("save_all")
  /\ At("item_delay", StartPage) # {}
  /\ At("page_delay", StartPage) # {}
  /\ At("detail_fetch", MAX_PAGES) # {}

\* ======================================================================= C7
IsEvent(e, kind, p, index) == e.kind = kind /\ e.page = p /\ e.index = index

\* C7 as stated: every detail fetch other than that of the first item of the
\* first page is directly preceded by a per-item delay issued after the
\* previous fetch.
C7_DelayBeforeEveryDetailFetch ==
  \A k \in 1..Len(Timeline) :
    /\ Timeline[k].kind = "detail_fetch"
    /\ ~(Timeline[k].page = StartPage /\ Timeline[k].index = 0)
    => /\ k > 2
       /\ Timeline[k - 1].kind = "item_delay"
       /\ Timeline[k - 2].kind \in Fetches

\* C7 amended: the per-stub steps run in the order FetchDetail,
\* ExtractDetails, then a per-item delay for every stub but the last of its
\* page.  A detail fetch of a stub that is not the first of its page is
\* directly preceded by the per-item delay issued after the previous stub's
\* detail fetch; the detail fetch of the first stub of every page directly
\* follows that page's list fetch, with no delay between the two.
C7_DelayBetweenItemsOfAPage ==
  \A k \in 1..Len(Timeline) :
    LET e == Timeline[k]
    IN  /\ e.kind = "detail_fetch" /\ e.index > 0 =>
             /\ k > 2
             /\ IsEvent(Timeline[k - 1], "item_delay", e.page, e.index - 1)
             /\ IsEvent(Timeline[k - 2], "detail_fetch", e.page, e.index - 1)
        /\ e.kind = "detail_fetch" /\ e.index = 0 =>
             /\ k > 1
             /\ Timeline[k - 1].kind = "list_fetch"
             /\ Timeline[k - 1].page = e.page
        /\ e.kind = "item_delay" =>
             /\ k > 1
             /\ IsEvent(Timeline[k - 1], "detail_fetch", e.page, e.index)
             /\ k < Len(Timeline) =>
                  IsEvent(Timeline[k + 1], "detail_fetch", e.page, e.index + 1)

\* the second item of a later page has been fetched
C7_Witness ==
  \E k \in 1..Len(Timeline) :
    IsEvent(Timeline[k], "detail_fetch", MAX_PAGES, 1)

\* ======================================================================= C8
ListFetchPages ==
  LET fetched == SelectSeq(events, LAMBDA e : e.kind = "list_fetch")
  IN  [k \in 1..Len(fetched) |-> fetched[k].page]
RECURSIVE AllRecords(_)
AllRecords(p) == IF p < StartPage THEN <<>> ELSE AllRecords(p - 1) \o Records(p)

\* C8: the run fetches the list page of every page number of the range once,
\* in ascending order, handles the stubs of a page in stub order, reaches the
\* terminal state after the end page has been processed, and its run-wide
\* list before the deduplication is the concatenation of the pages' records.
C8_EveryPageOnceInOrder ==
  Finished =>
    /\ ListFetchPages = [k \in 1..NumPages |-> StartPage + k - 1]
    /\ At("checkpoint", MAX_PAGES) # {}
    /\ \A p \in Pages : \A k \in 1..Len(produced[p]) :
         \E j \in At("detail_fetch", p) : events[j].index = k - 1
    /\ Happened("dedupe") /\ dedupe_input = AllRecords(MAX_PAGES)

\* ======================================================================= C9
Count(kind) == Cardinality({k \in 1..Len(events) : events[k].kind = kind})

\* C9: the crawler is acquired once per run; on every path out of main()
\* after it was acquired, normal or by an exception, crawler.close() has been
\* called exactly once; no fetch is issued after the close.
C9_CrawlerClosedOnce ==
  /\ Count("construct") = (IF Acquired THEN 1 ELSE 0)
  /\ Count("close") = (IF crawler = "closed" THEN 1 ELSE 0)
  /\ Finished => crawler = "closed"
  /\ crawler = "closed" => pc = "done"
  /\ \A a, b \in 1..Len(events) :
       a < b /\ events[a].kind = "close" => events[b].kind \notin Fetches

\* main() was left by an exception of the page loop, after records had been
\* collected, and the crawler is closed
C9_Witness ==
  /\ Finished
  /\ raised = "TypeError"
  /\ crawler = "closed"
  /\ manga_list # <<>>

\* ====================================================================== C10
\* C10 as stated: every run in which the crawler was acquired attempts to
\* write the aggregate file, also when no page yielded a record and also when
\* the page loop ended early by an error.
C10_AlwaysWritesAggregate ==
  Finished => output.attempts = 1 /\ Happened("save_all")

\* C10 amended: a run in which the crawler was acquired attempts to write the
\* aggregate file, once and with the deduplicated records, exactly when the
\* page loop ran to its end and at least one record was collected.  When no
\* page yielded a record the write is skipped; when an exception ends the
\* page loop neither the deduplication nor the write takes place.
C10_WritesAggregateIfAnyRecord ==
  /\ output.attempts =
       (IF Happened("dedupe") /\ pc \in {"finally", "done"}
           /\ (\E p \in Pages : produced[p] # <<>>)
        THEN 1 ELSE 0)
  /\ Happened("save_all") <=> output.attempts = 1
  /\ output.data # <<>> => Contents(output) = unique_manga_list
  /\ raised # "none" => ~Happened("dedupe")
  /\ Finished /\ raised = "none" => Happened("dedupe")

\* a complete run in which every page yielded no record: nothing is written
C10_Witness ==
  /\ Finished
  /\ raised = "none"
  /\ Happened("dedupe")
  /\ output.attempts = 0
  /\ \A p \in Pages : files[p].attempts = 1

====
